---- MODULE Spec2Model ----
(***************************************************************************)
(* A model of the experiment drivers and dataset partitioners of the       *)
(* mlmi federated-learning repository:                                     *)
(*   - run_fedavg_experiment        (mlmi/experiments/fedavg.py)           *)
(*   - run_hierarchical_clustering  (mlmi/experiments/                     *)
(*                                   hierarchical_clustering_fedavg.py)    *)
(*   - load_mnist_dataset, load_femnist_dataset (mlmi/fedavg/femnist.py)   *)
(*   - _split_train_test            (mlmi/reptile/omniglot.py)             *)
(* Each program has its own specification (Spec, SpecMnist, SpecFemnist,   *)
(* SpecSplit) over the shared variables; the variables of the programs a   *)
(* specification does not run stay at their idle values.                   *)
(***************************************************************************)
EXTENDS Integers, Sequences, FiniteSets, Bags, TLC

VARIABLES
    \* ---- the two experiment drivers -------------------------------------
    driver,                         \* which @ex.automain is invoked
    dataset,                        \* config: dataset name
    client_fraction,                \* config: list of client fractions
    lr,                             \* config: learning rate(s)
    total_fedavg_rounds,            \* config
    cluster_initialization_rounds,  \* config: list of round indices
    max_value_criterion,            \* config: scalar or list
    pc,                             \* position of the driver
    err,                            \* the exception that ended the driver, or "none"
    cfi,                            \* index of the current client fraction (0: none yet)
    lri,                            \* index of the current learning rate (0: none yet)
    cgi,                            \* index of the current cluster configuration
    data_distribution_logged,
    fedavg_context,                 \* the current FedAvgExperimentContext
    experiment_logger,              \* the current tensorboard logger (0: none)
    round,                          \* round counter inside run_fedavg / run_fedavg_hierarchical
    saved_states,                   \* checkpoints on disk: (context key, round) -> model state
    server_model,                   \* model state held by the server
    client_model,                   \* model state held by every client
    next_model,                     \* the next never-seen model state
    round_model_state,              \* local variable of run_hierarchical_clustering
    cluster_args,                   \* the current ClusterArgs
    initial_train_fn,               \* the model state bound into initial_train_fn
    call_args,                      \* the arguments of the run_fedavg call in progress
    events,                         \* history: the calls the driver made, in order
    \* ---- load_mnist_dataset ---------------------------------------------
    mnist_pc,
    mnist_num_clients,              \* argument num_clients
    labels,                         \* dataset_train.targets
    idxs,                           \* the training indices, sorted by label
    idx_shard,                      \* the shards not yet handed out
    partitions,                     \* client -> its training indices
    rand_sets,                      \* history: client -> the rand_set drawn for it
    mnist_i,                        \* clients served so far
    \* ---- load_femnist_dataset -------------------------------------------
    femnist_pc,
    femnist_num_clients,            \* argument num_clients
    sample_threshold,               \* argument sample_threshold
    train_sizes,                    \* client id -> len(h5data_train['label'])
    clients_exceeding_threshold,
    selected_client_ids,
    scanned,                        \* client ids the threshold loop has visited
    femnist_err,
    \* ---- _split_train_test -----------------------------------------------
    split_pc,
    samples,                        \* argument samples
    test_shots,                     \* argument test_shots
    train_set,
    test_set,
    label_order,                    \* the order in which the set `labels` iterates
    shot,                           \* the outer loop's pass (0-based)
    label_pos,                      \* labels visited in this pass
    \* ---- load_omniglot_datasets -----------------------------------------
    omni_pc,
    characters,                     \* list(read_dataset(data_dir))
    images,                         \* dir_path -> number of .png files in it
    num_clients_train,              \* argument num_clients_train
    num_clients_test,               \* argument num_clients_test
    num_classes_per_client,         \* argument num_classes_per_client
    num_shots_per_class,            \* argument num_shots_per_class
    inner_batch_size,               \* argument inner_batch_size
    split_train,                    \* history: the training split before augmentation
    omniglot_train,
    omniglot_test,
    federated_dataset_args,         \* of the _make_omniglot_dataset call in progress
    train_clients,
    test_clients,
    client_data,                    \* of the newest loop iteration
    train_data,
    test_data,
    train_batch_size,
    test_batch_size,
    omni_err

driverVars == << driver, dataset, client_fraction, lr, total_fedavg_rounds,
                 cluster_initialization_rounds, max_value_criterion, pc, err, cfi, lri,
                 cgi, data_distribution_logged, fedavg_context, experiment_logger,
                 round, saved_states, server_model, client_model, next_model,
                 round_model_state, cluster_args, initial_train_fn, call_args,
                 events >>

mnistVars == << mnist_pc, mnist_num_clients, labels, idxs, idx_shard, partitions,
               rand_sets, mnist_i >>

femnistVars == << femnist_pc, femnist_num_clients, sample_threshold, train_sizes,
                 clients_exceeding_threshold, selected_client_ids, scanned, femnist_err >>

splitVars == << split_pc, samples, test_shots, train_set, test_set, label_order, shot,
               label_pos >>

omniVars == << omni_pc, characters, images, num_clients_train, num_clients_test,
              num_classes_per_client, num_shots_per_class, inner_batch_size,
              split_train, omniglot_train, omniglot_test, federated_dataset_args,
              train_clients, test_clients, client_data, train_data, test_data,
              train_batch_size, test_batch_size, omni_err >>

\* the variables of the other programs
nonDriverVars == << mnistVars, femnistVars, splitVars, omniVars >>

vars == << driverVars, mnistVars, femnistVars, splitVars, omniVars >>

-----------------------------------------------------------------------------
(* Bounds of the model.                                                    *)

\* longest client_fraction list
MaxFractions == 2
\* longest lr list
MaxLrs == 2
\* largest total_fedavg_rounds
MaxRounds == 3
\* longest max_value_criterion list
MaxMaxValues == 2
\* load_mnist_dataset's num_shards and num_imgs (200 and 300, femnist.py 38), scaled down:
\* the training set has num_shards * num_imgs images
num_shards == 6
num_imgs == 2
\* clients in the FEMNIST training file
MaxFemnistClients == 3
\* most training samples one FEMNIST client has
MaxSamples == 2
\* longest samples list given to _split_train_test
MaxSplitSamples == 4
\* largest test_shots
MaxTestShots == 2
\* most character directories under data_dir
MaxChars == 2
\* split_dataset's num_train (1200, omniglot.py 148), scaled down
num_train == 1
\* largest num_classes_per_client
MaxClasses == 2
\* largest num_shots_per_class
MaxShots == 1
\* largest num_clients_train and num_clients_test
MaxOmniClients == 2

-----------------------------------------------------------------------------
(* Helpers.                                                                *)

\* all sequences over S of length at most n
SeqsUpTo(S, n) == UNION { [1..k -> S] : k \in 0..n }

\* the ascending sequence of the elements of a finite set of integers
RECURSIVE Ascending(_)
Ascending(S) ==
    IF S = {} THEN << >>
    ELSE LET m == CHOOSE x \in S : \A y \in S : x <= y
         IN  << m >> \o Ascending(S \ {m})

\* the prefix 1, 2, .., n as a list
Upto(n) == [i \in 1..n |-> i]

Last(s) == s[Len(s)]

-----------------------------------------------------------------------------
(* Inputs of the drivers.                                                  *)

Clients == {"c1", "c2"}

DatasetNames == {"femnist", "mnist", "ham10k", "cifar10"}

\* client fractions, in tenths (0.1, 0.2)
CfValues == {1, 2}

\* a config value that may be a scalar or a list: iter says which
Scalar(v) == [iter |-> FALSE, items |-> << v >>]
List(s) == [iter |-> TRUE, items |-> s]

LrInputs == { Scalar(1) } \cup { List(Upto(n)) : n \in 0..MaxLrs }

MaxValueInputs == { Scalar(10) } \cup { List(Upto(n)) : n \in 0..MaxMaxValues }

NoContext == [id |-> 0, client_fraction |-> 0, lr |-> 0, experiment_logger |-> 0]

NoClusterArgs == [num_rounds_init |-> -1, num_rounds_cluster |-> -1, max_value_criterion |-> -1]

NoCall == [context |-> NoContext, num_rounds |-> 0, save_states |-> FALSE, restore_state |-> FALSE]

\* one entry of the call history, stamped with the loop indices it was made under
Event(op, i, j, k, a) == [op |-> op, cfi |-> i, lri |-> j, cgi |-> k, a |-> a]

EventsOf(op) == SelectSeq(events, LAMBDA e : e.op = op)

-----------------------------------------------------------------------------
(* Code outside src/ that the drivers call, modelled from the spec's       *)
(* description of the round loop and its checkpoints.                      *)

\* what identifies a FedAvg context's checkpoints: the hyperparameters it was built from
ContextKey(ctx) == << ctx.client_fraction, ctx.lr >>

fedavg_state_exists(ctx, r) == << ContextKey(ctx), r >> \in DOMAIN saved_states

load_fedavg_state(ctx, r) == saved_states[<< ContextKey(ctx), r >>]

overwrite_participants_models(state, participants) == [c \in DOMAIN participants |-> state]

ClientNo(c) == IF c = "c1" THEN 1 ELSE 2

\* local training leaves every client with a model state of its own, never seen before
TrainedClients == [c \in Clients |-> next_model + ClientNo(c)]

-----------------------------------------------------------------------------
(* The drivers' own code.                                                  *)

\* mutant: the hierarchical driver accepting what the plain FedAvg driver accepts
AcceptedDatasetsSame(d) == {"femnist", "mnist", "ham10k"}

\* fedavg.py 143-153 and hierarchical_clustering_fedavg.py 160-167: the dataset names
\* that do not fall through to the final else
AcceptedDatasets(d) ==
    IF d = "fedavg" THEN {"femnist", "mnist", "ham10k"} ELSE {"femnist"}

\* hierarchical_clustering_fedavg.py 169-170
MaxValueList(mv) == IF mv.iter THEN mv.items ELSE << mv.items[1] >>

\* hierarchical_clustering_fedavg.py 128-131
generate_configuration(init_rounds_list, max_value_criterion_list) ==
    LET n == Len(max_value_criterion_list)
    IN  [k \in 1..(Len(init_rounds_list) * n) |->
            << init_rounds_list[((k - 1) \div n) + 1],
               max_value_criterion_list[((k - 1) % n) + 1] >>]

Configurations ==
    generate_configuration(cluster_initialization_rounds, max_value_criterion.items)

\* FedAvgExperimentContext(name=name, client_fraction=cf, ..., lr=lr_i, ...)
NewContext(cf, lr_i) ==
    [id |-> fedavg_context.id + 1, client_fraction |-> cf, lr |-> lr_i,
     experiment_logger |-> 0]

\* mutant: restore_state left at its default
RunFedavgArgsNoRestore(ctx) ==
    [context |-> ctx, num_rounds |-> total_fedavg_rounds,
     save_states |-> TRUE, restore_state |-> FALSE]

\* the keyword arguments both drivers pass to run_fedavg
RunFedavgArgs(ctx) ==
    [context |-> ctx, num_rounds |-> total_fedavg_rounds,
     save_states |-> TRUE, restore_state |-> TRUE]

\* mutant: the distribution logged by every iteration
IterationEventsAlwaysLog(i, j, ctx) ==
    << Event("create_tensorboard_logger", i, j, 0, experiment_logger + 1),
       Event("log_dataset_distribution", i, j, 0, experiment_logger + 1),
       Event("run_fedavg", i, j, 0, RunFedavgArgs(ctx)) >>

\* the events of lines "create logger, log the distribution once, call run_fedavg"
IterationEvents(i, j, ctx) ==
    << Event("create_tensorboard_logger", i, j, 0, experiment_logger + 1) >>
    \o (IF ~data_distribution_logged
        THEN << Event("log_dataset_distribution", i, j, 0, experiment_logger + 1) >>
        ELSE << >>)
    \o << Event("run_fedavg", i, j, 0, RunFedavgArgs(ctx)) >>

\* mutant: the hierarchical driver entering the configuration loop without the base run
IterationCallSkipsBaseRun(d) == IF d = "hier" THEN "configs" ELSE "in_fedavg"

\* where an iteration goes once its context and logger exist: both drivers call
\* run_fedavg (fedavg.py 171, hierarchical_clustering_fedavg.py 192) before anything else

IterationCall(d) == "in_fedavg"

\* mutant: the cluster phase given the whole budget
RoundConfigurationWholeBudget(init_rounds) ==
    [num_rounds_init |-> init_rounds,
     num_rounds_cluster |-> total_fedavg_rounds]

\* hierarchical_clustering_fedavg.py 201-204
RoundConfiguration(init_rounds) ==
    [num_rounds_init |-> init_rounds,
     num_rounds_cluster |-> total_fedavg_rounds - init_rounds]

\* hierarchical_clustering_fedavg.py 205-208
ClusterArgs(init_rounds, max_value) ==
    [num_rounds_init |-> RoundConfiguration(init_rounds).num_rounds_init,
     num_rounds_cluster |-> RoundConfiguration(init_rounds).num_rounds_cluster,
     max_value_criterion |-> max_value]

\* hierarchical_clustering_fedavg.py 198
RoundModelState(ctx, init_rounds) == load_fedavg_state(ctx, init_rounds)

\* mutant: the loaded state never written into the clients
OverwrittenClientsSkipped(state) == client_model

\* hierarchical_clustering_fedavg.py 199
OverwrittenClients(state) == overwrite_participants_models(state, client_model)

\* hierarchical_clustering_fedavg.py 214: partial(run_fedavg_train_round, round_model_state, ..)
InitialTrainFn == round_model_state


-----------------------------------------------------------------------------
(* The drivers: initial state.                                             *)

DriverConfigs ==
    { c \in [driver : {"fedavg", "hier"}, dataset : DatasetNames,
             client_fraction : SeqsUpTo(CfValues, MaxFractions),
             total_fedavg_rounds : 1..MaxRounds,
             lr : LrInputs, max_value_criterion : MaxValueInputs] :
        \* the plain FedAvg driver takes a scalar lr and no clustering options
        c.driver = "fedavg" => c.lr = Scalar(1) /\ c.max_value_criterion = Scalar(10) }

InitDriverState ==
    /\ pc = "start"
    /\ err = "none"
    /\ cfi = 0 /\ lri = 0 /\ cgi = 0
    /\ data_distribution_logged = FALSE
    /\ fedavg_context = NoContext
    /\ experiment_logger = 0
    /\ round = 0
    /\ saved_states = << >>
    /\ server_model = 0
    /\ client_model = [c \in Clients |-> 0]
    /\ next_model = 1
    /\ round_model_state = 0
    /\ cluster_args = NoClusterArgs
    /\ initial_train_fn = 0
    /\ call_args = NoCall
    /\ events = << >>

InitDrivers ==
    /\ \E c \in DriverConfigs :
         /\ driver = c.driver
         /\ dataset = c.dataset
         /\ client_fraction = c.client_fraction
         /\ total_fedavg_rounds = c.total_fedavg_rounds
         /\ lr = c.lr
         /\ max_value_criterion = c.max_value_criterion
         /\ cluster_initialization_rounds \in
                IF c.driver = "hier"
                THEN { Ascending(S) : S \in SUBSET (1..c.total_fedavg_rounds) }
                ELSE { << >> }
    /\ InitDriverState

IdleDrivers ==
    /\ driver = "none" /\ dataset = "none" /\ client_fraction = << >>
    /\ total_fedavg_rounds = 0 /\ lr = Scalar(1) /\ max_value_criterion = Scalar(10)
    /\ cluster_initialization_rounds = << >>
    /\ InitDriverState

configVars == << driver, dataset, client_fraction, lr, total_fedavg_rounds,
                 cluster_initialization_rounds >>

modelVars == << saved_states, server_model, client_model, next_model >>

hierVars == << cgi, round_model_state, cluster_args, initial_train_fn >>

-----------------------------------------------------------------------------
(* The drivers: dataset selection (fedavg.py 140-155, hierarchical 157-173) *)

\* the dataset is known and its loader returns (scratch_labels, lines 164-165, only
\* rewrites the dataset's contents, which the drivers pass on unread)
DatasetLoaded ==
    /\ pc = "start"
    /\ dataset \in AcceptedDatasets(driver)
    /\ events' = Append(events, Event("load_dataset", 0, 0, 0, dataset))
    /\ max_value_criterion' =
          IF driver = "hier" THEN List(MaxValueList(max_value_criterion))
          ELSE max_value_criterion
    /\ data_distribution_logged' = FALSE
    /\ pc' = "loop"
    /\ UNCHANGED << configVars, err, cfi, lri, fedavg_context, experiment_logger, round,
                    modelVars, hierVars, call_args, nonDriverVars >>

\* the dataset is known and its loader raises (load_femnist_dataset's ValueError)
DatasetLoaderRaises ==
    /\ pc = "start"
    /\ dataset \in AcceptedDatasets(driver)
    /\ events' = Append(events, Event("load_dataset", 0, 0, 0, dataset))
    /\ pc' = "error"
    /\ err' = "ValueError: loader"
    /\ UNCHANGED << configVars, max_value_criterion, cfi, lri, data_distribution_logged,
                    fedavg_context, experiment_logger, round, modelVars, hierVars,
                    call_args, nonDriverVars >>

\* the final else: raise ValueError(f'dataset "{dataset}" unknown')
DatasetUnknown ==
    /\ pc = "start"
    /\ dataset \notin AcceptedDatasets(driver)
    /\ pc' = "error"
    /\ err' = "ValueError: dataset unknown"
    /\ UNCHANGED << configVars, max_value_criterion, cfi, lri, data_distribution_logged,
                    fedavg_context, experiment_logger, round, modelVars, hierVars,
                    call_args, events, nonDriverVars >>

-----------------------------------------------------------------------------
(* The drivers: the loop over client fractions (and learning rates)        *)

\* run_fedavg_experiment, fedavg.py 156-173: one iteration up to the run_fedavg call
FedavgIteration ==
    /\ pc = "loop"
    /\ driver = "fedavg"
    /\ cfi < Len(client_fraction)
    /\ LET ctx == NewContext(client_fraction[cfi + 1], lr.items[1])
       IN  /\ fedavg_context' = ctx
           /\ events' = events \o IterationEvents(cfi + 1, 0, ctx)
           /\ call_args' = RunFedavgArgs(ctx)
    /\ cfi' = cfi + 1
    /\ experiment_logger' = experiment_logger + 1
    /\ data_distribution_logged' = TRUE
    /\ round' = 0
    /\ pc' = IterationCall(driver)
    /\ UNCHANGED << configVars, max_value_criterion, err, lri, modelVars, hierVars,
                    nonDriverVars >>

\* the nested loops of run_hierarchical_clustering have another (cf, lr_i) pair
HasNextPair ==
    /\ lr.iter
    /\ Len(lr.items) >= 1
    /\ \/ cfi >= 1 /\ lri < Len(lr.items)
       \/ cfi < Len(client_fraction)

NextPair == IF cfi >= 1 /\ lri < Len(lr.items) THEN << cfi, lri + 1 >> ELSE << cfi + 1, 1 >>

\* run_hierarchical_clustering, 174-194: one iteration up to the run_fedavg call
HierIteration ==
    /\ pc = "loop"
    /\ driver = "hier"
    /\ HasNextPair
    /\ LET i == NextPair[1]
           j == NextPair[2]
           ctx == NewContext(client_fraction[i], lr.items[j])
       IN  /\ cfi' = i
           /\ lri' = j
           /\ fedavg_context' = ctx
           /\ events' = events \o IterationEvents(i, j, ctx)
           /\ call_args' = RunFedavgArgs(ctx)
    /\ experiment_logger' = experiment_logger + 1
    /\ data_distribution_logged' = TRUE
    /\ round' = 0
    /\ pc' = IterationCall(driver)
    /\ UNCHANGED << configVars, max_value_criterion, err, modelVars, hierVars,
                    nonDriverVars >>

\* line 175, "for lr_i in lr", with a scalar lr (the default configuration's lr = 0.1)
HierLrNotIterable ==
    /\ pc = "loop"
    /\ driver = "hier"
    /\ ~lr.iter
    /\ Len(client_fraction) >= 1
    /\ cfi' = 1
    /\ pc' = "error"
    /\ err' = "TypeError: lr is not iterable"
    /\ UNCHANGED << configVars, max_value_criterion, lri, data_distribution_logged,
                    fedavg_context, experiment_logger, round, modelVars, hierVars,
                    call_args, events, nonDriverVars >>

\* the loops are exhausted: the driver returns
LoopDone ==
    /\ pc = "loop"
    /\ \/ driver = "fedavg" /\ cfi >= Len(client_fraction)
       \/ driver = "hier" /\ ~HasNextPair /\ (lr.iter \/ Len(client_fraction) = 0)
    /\ pc' = "done"
    /\ UNCHANGED << configVars, max_value_criterion, err, cfi, lri,
                    data_distribution_logged, fedavg_context, experiment_logger, round,
                    modelVars, hierVars, call_args, events, nonDriverVars >>


-----------------------------------------------------------------------------
(* run_fedavg: N standard FedAvg rounds, saving / restoring checkpoints    *)

\* one round: restored from its checkpoint when there is one, trained otherwise
RunFedavgRound ==
    /\ pc = "in_fedavg"
    /\ round < call_args.num_rounds
    /\ LET ctx == call_args.context
           restored == call_args.restore_state /\ fedavg_state_exists(ctx, round)
           state == IF restored THEN load_fedavg_state(ctx, round) ELSE next_model
       IN  /\ server_model' = state
           /\ client_model' =
                 IF restored THEN overwrite_participants_models(state, client_model)
                 ELSE TrainedClients
           /\ next_model' = IF restored THEN next_model
                            ELSE next_model + Cardinality(Clients) + 1
           /\ saved_states' =
                 IF call_args.save_states
                 THEN (<< ContextKey(ctx), round >> :> state) @@ saved_states
                 ELSE saved_states
    /\ round' = round + 1
    /\ UNCHANGED << configVars, max_value_criterion, pc, err, cfi, lri,
                    data_distribution_logged, fedavg_context, experiment_logger,
                    hierVars, call_args, events, nonDriverVars >>

\* run_fedavg returns (server, clients) to the driver
RunFedavgReturn ==
    /\ pc = "in_fedavg"
    /\ round >= call_args.num_rounds
    /\ events' = Append(events, Event("run_fedavg returned", cfi, lri, 0, round))
    /\ pc' = IF driver = "fedavg" THEN "loop" ELSE "configs"
    /\ cgi' = 0
    /\ call_args' = NoCall
    /\ UNCHANGED << configVars, max_value_criterion, err, cfi, lri,
                    data_distribution_logged, fedavg_context, experiment_logger, round,
                    modelVars, round_model_state, cluster_args, initial_train_fn,
                    nonDriverVars >>

-----------------------------------------------------------------------------
(* run_hierarchical_clustering: the loop over cluster configurations       *)

\* lines 196-199: the next configuration; load the round's state into every client
LoadRoundState ==
    /\ pc = "configs"
    /\ cgi < Len(Configurations)
    /\ LET init_rounds == Configurations[cgi + 1][1]
       IN  /\ fedavg_state_exists(fedavg_context, init_rounds)
           /\ round_model_state' = RoundModelState(fedavg_context, init_rounds)
           /\ client_model' = OverwrittenClients(RoundModelState(fedavg_context, init_rounds))
           /\ events' = events \o
                 << Event("load_fedavg_state", cfi, lri, cgi + 1, init_rounds),
                    Event("overwrite_participants_models", cfi, lri, cgi + 1, init_rounds) >>
    /\ cgi' = cgi + 1
    /\ pc' = "loaded"
    /\ UNCHANGED << configVars, max_value_criterion, err, cfi, lri,
                    data_distribution_logged, fedavg_context, experiment_logger, round,
                    saved_states, server_model, next_model, cluster_args,
                    initial_train_fn, call_args, nonDriverVars >>

\* line 198 when no checkpoint was saved for that round: the load fails
LoadRoundStateFails ==
    /\ pc = "configs"
    /\ cgi < Len(Configurations)
    /\ LET init_rounds == Configurations[cgi + 1][1]
       IN  /\ ~fedavg_state_exists(fedavg_context, init_rounds)
           /\ events' = Append(events,
                 Event("load_fedavg_state", cfi, lri, cgi + 1, init_rounds))
    /\ cgi' = cgi + 1
    /\ pc' = "error"
    /\ err' = "load_fedavg_state: no such checkpoint"
    /\ UNCHANGED << configVars, max_value_criterion, cfi, lri, data_distribution_logged,
                    fedavg_context, experiment_logger, round, modelVars,
                    round_model_state, cluster_args, initial_train_fn, call_args,
                    nonDriverVars >>

\* lines 200-238: build the cluster configuration, a new logger, the partials, and call
\* run_fedavg_hierarchical
StartHierarchical ==
    /\ pc = "loaded"
    /\ LET init_rounds == Configurations[cgi][1]
           max_value == Configurations[cgi][2]
       IN  cluster_args' = ClusterArgs(init_rounds, max_value)
    /\ experiment_logger' = experiment_logger + 1
    /\ fedavg_context' = [fedavg_context EXCEPT !.experiment_logger = experiment_logger + 1]
    /\ initial_train_fn' = InitialTrainFn
    /\ events' = events \o
          << Event("create_tensorboard_logger", cfi, lri, cgi, experiment_logger + 1),
             Event("run_fedavg_hierarchical", cfi, lri, cgi, cluster_args') >>
    /\ round' = 0
    /\ pc' = "in_hier"
    /\ UNCHANGED << configVars, max_value_criterion, err, cfi, lri, cgi,
                    data_distribution_logged, modelVars, round_model_state, call_args,
                    nonDriverVars >>

\* the rounds run_fedavg_hierarchical makes: the initial training round and clustering,
\* then num_rounds_cluster per-cluster rounds
HierRounds == 1 + (IF cluster_args.num_rounds_cluster > 0
                   THEN cluster_args.num_rounds_cluster ELSE 0)

\* one round of run_fedavg_hierarchical: the clients train
RunHierarchicalRound ==
    /\ pc = "in_hier"
    /\ round < HierRounds
    /\ client_model' = TrainedClients
    /\ next_model' = next_model + Cardinality(Clients) + 1
    /\ round' = round + 1
    /\ UNCHANGED << configVars, max_value_criterion, pc, err, cfi, lri,
                    data_distribution_logged, fedavg_context, experiment_logger,
                    saved_states, server_model, hierVars, call_args, events,
                    nonDriverVars >>

RunHierarchicalReturn ==
    /\ pc = "in_hier"
    /\ round >= HierRounds
    /\ events' = Append(events, Event("run_fedavg_hierarchical returned", cfi, lri, cgi, round))
    /\ pc' = "configs"
    /\ UNCHANGED << configVars, max_value_criterion, err, cfi, lri,
                    data_distribution_logged, fedavg_context, experiment_logger, round,
                    modelVars, hierVars, call_args, nonDriverVars >>

\* the configurations are exhausted: back to the loop over (cf, lr_i)
ConfigurationsDone ==
    /\ pc = "configs"
    /\ cgi >= Len(Configurations)
    /\ pc' = "loop"
    /\ UNCHANGED << configVars, max_value_criterion, err, cfi, lri,
                    data_distribution_logged, fedavg_context, experiment_logger, round,
                    modelVars, hierVars, call_args, events, nonDriverVars >>

-----------------------------------------------------------------------------
(* The idle state of the programs a specification does not run.            *)

IdleMnist ==
    /\ mnist_pc = "idle" /\ mnist_num_clients = 0 /\ labels = << >> /\ idxs = << >>
    /\ idx_shard = {} /\ partitions = << >> /\ rand_sets = << >> /\ mnist_i = 0

IdleFemnist ==
    /\ femnist_pc = "idle" /\ femnist_num_clients = 0 /\ sample_threshold = -1
    /\ train_sizes = << >> /\ clients_exceeding_threshold = << >>
    /\ selected_client_ids = {} /\ scanned = 0 /\ femnist_err = "none"

IdleSplit ==
    /\ split_pc = "idle" /\ samples = << >> /\ test_shots = 0 /\ train_set = << >>
    /\ test_set = << >> /\ label_order = << >> /\ shot = 0 /\ label_pos = 0

\* no FederatedDatasetData built
NoDataset == [client_num |-> -1]

IdleOmniglot ==
    /\ omni_pc = "idle" /\ characters = << >> /\ images = << >>
    /\ num_clients_train = 0 /\ num_clients_test = 0 /\ num_classes_per_client = 0
    /\ num_shots_per_class = 0 /\ inner_batch_size = 0 /\ split_train = << >>
    /\ omniglot_train = << >> /\ omniglot_test = << >>
    /\ federated_dataset_args = NoDataset /\ train_clients = NoDataset
    /\ test_clients = NoDataset /\ client_data = << >> /\ train_data = << >>
    /\ test_data = << >>
    /\ train_batch_size = 0 /\ test_batch_size = 0 /\ omni_err = "none"

Init == InitDrivers /\ IdleMnist /\ IdleFemnist /\ IdleSplit /\ IdleOmniglot

Next ==
    \/ DatasetLoaded
    \/ DatasetLoaderRaises
    \/ DatasetUnknown
    \/ FedavgIteration
    \/ HierIteration
    \/ HierLrNotIterable
    \/ LoopDone
    \/ RunFedavgRound
    \/ RunFedavgReturn
    \/ LoadRoundState
    \/ LoadRoundStateFails
    \/ StartHierarchical
    \/ RunHierarchicalRound
    \/ RunHierarchicalReturn
    \/ ConfigurationsDone

Spec == Init /\ [][Next]_vars


-----------------------------------------------------------------------------
(* Claims about the drivers, checked under Spec.                           *)

\* the position in events of the first entry with this op (0: none)
FirstIndexOf(op) ==
    IF \E k \in 1..Len(events) : events[k].op = op
    THEN CHOOSE k \in 1..Len(events) :
            /\ events[k].op = op
            /\ \A m \in 1..(k - 1) : events[m].op # op
    ELSE 0

\* the entries of events the latest step can have added: no step adds more than three,
\* and events only grows, so a property of these entries in every reachable state is a
\* property of every entry
NewestEvents == { k \in 1..Len(events) : k > Len(events) - 3 }

\* C1: in run_hierarchical_clustering every load_fedavg_state and every
\* run_fedavg_hierarchical call of a (client_fraction, lr) pair comes after the return of
\* that pair's run_fedavg call, which was made with num_rounds = total_fedavg_rounds and
\* ran that many rounds; a clustering run is never in progress while run_fedavg is.
C1_BaseRunReturnsBeforeClustering ==
    /\ \A k \in NewestEvents :
          events[k].op \in {"load_fedavg_state", "run_fedavg_hierarchical"} =>
             \E r \in 1..(k - 1) :
                /\ events[r].op = "run_fedavg returned"
                /\ events[r].cfi = events[k].cfi /\ events[r].lri = events[k].lri
                /\ events[r].a = total_fedavg_rounds
                /\ \E c \in 1..(r - 1) :
                      /\ events[c].op = "run_fedavg"
                      /\ events[c].cfi = events[k].cfi /\ events[c].lri = events[k].lri
                      /\ events[c].a.num_rounds = total_fedavg_rounds
    /\ pc \in {"configs", "loaded", "in_hier"} =>
          /\ call_args = NoCall
          /\ \E r \in 1..Len(events) :
                /\ events[r].op = "run_fedavg returned"
                /\ events[r].cfi = cfi /\ events[r].lri = lri

\* a clustering run of the second or a later pair is in progress
C1_Witness ==
    /\ driver = "hier"
    /\ pc = "in_hier"
    /\ round = 1
    /\ cfi = 2

\* C2: at the moment run_fedavg_hierarchical is called, every client's model and the
\* state bound into initial_train_fn are the checkpoint saved for round init_rounds of
\* the current FedAvg context, whatever the earlier configurations left in the clients.
C2_ClientsHoldCheckpointAtCall ==
    (pc = "in_hier" /\ round = 0) =>
        LET init_rounds == Configurations[cgi][1]
            key == << << fedavg_context.client_fraction, fedavg_context.lr >>, init_rounds >>
        IN  /\ Last(events).op = "run_fedavg_hierarchical"
            /\ key \in DOMAIN saved_states
            /\ \A c \in Clients : client_model[c] = saved_states[key]
            /\ initial_train_fn = saved_states[key]

\* run_fedavg_hierarchical is called for a second configuration, after the first one's
\* run has trained the clients
C2_Witness ==
    /\ pc = "in_hier"
    /\ round = 0
    /\ cgi >= 2
    /\ \E k \in 1..Len(events) :
          events[k].op = "run_fedavg_hierarchical returned" /\ events[k].cfi = cfi
          /\ events[k].lri = lri /\ events[k].a >= 1

\* C3: the cluster configuration passed to run_fedavg_hierarchical has num_rounds_init
\* equal to the configured init_rounds, and num_rounds_init + num_rounds_cluster equal to
\* total_fedavg_rounds.
C3_RoundBudget ==
    pc = "in_hier" =>
        /\ cluster_args.num_rounds_init = cluster_initialization_rounds[((cgi - 1) \div Len(max_value_criterion.items)) + 1]
        /\ cluster_args.num_rounds_init + cluster_args.num_rounds_cluster = total_fedavg_rounds
        /\ Last(EventsOf("run_fedavg_hierarchical")).a = cluster_args

C3_Witness ==
    /\ pc = "in_hier"
    /\ cluster_args.num_rounds_init = 2
    /\ cluster_args.num_rounds_cluster = 1
    /\ cgi >= 2

\* C4: run_fedavg_experiment calls run_fedavg once per entry of client_fraction, in list
\* order, with num_rounds = total_fedavg_rounds, save_states = True, restore_state = True
\* and a context built for that call carrying that fraction; between two calls the
\* earlier one has returned.
C4_OneRunPerFraction ==
    driver = "fedavg" =>
        LET calls == EventsOf("run_fedavg")
        IN  /\ Len(calls) = cfi
            /\ Len(calls) <= Len(client_fraction)
            /\ pc = "done" => Len(calls) = Len(client_fraction)
            /\ \A k \in 1..Len(calls) :
                  /\ calls[k].cfi = k
                  /\ calls[k].a.context.client_fraction = client_fraction[k]
                  /\ calls[k].a.num_rounds = total_fedavg_rounds
                  /\ calls[k].a.save_states = TRUE
                  /\ calls[k].a.restore_state = TRUE
                  /\ \A m \in 1..(k - 1) : calls[m].a.context.id # calls[k].a.context.id
            /\ \A p \in 1..Len(events) : \A q \in (p + 1)..Len(events) :
                  (events[p].op = "run_fedavg" /\ events[q].op = "run_fedavg") =>
                     \E r \in (p + 1)..(q - 1) :
                        /\ events[r].op = "run_fedavg returned"
                        /\ events[r].cfi = events[p].cfi
                        /\ events[r].a = total_fedavg_rounds

C4_Witness ==
    /\ driver = "fedavg"
    /\ pc = "done"
    /\ Len(client_fraction) = 2
    /\ Len(EventsOf("run_fedavg")) = 2

\* C5: a dataset name other than 'femnist', 'mnist', 'ham10k' (run_fedavg_experiment) or
\* other than 'femnist' (run_hierarchical_clustering) ends the driver with the
\* "dataset unknown" ValueError before any logger, logging or round; the names listed
\* never raise it.
C5_UnknownDatasetRaisesFirst ==
    LET accepted == IF driver = "fedavg" THEN {"femnist", "mnist", "ham10k"}
                    ELSE {"femnist"}
    IN  /\ (dataset \notin accepted /\ pc # "start") =>
              /\ pc = "error"
              /\ err = "ValueError: dataset unknown"
              /\ events = << >>
              /\ experiment_logger = 0
              /\ saved_states = << >>
              /\ round = 0
        /\ dataset \in accepted => err # "ValueError: dataset unknown"

C5_Witness ==
    /\ driver = "hier"
    /\ dataset = "mnist"
    /\ pc = "error"
    /\ err = "ValueError: dataset unknown"

\* C6: the full-dataset label distribution is logged at most once per invocation; once
\* an iteration has run it has been logged exactly once, by the first iteration, with
\* that iteration's logger and before the first run_fedavg call.
C6_DistributionLoggedOnce ==
    LET logs == EventsOf("log_dataset_distribution")
    IN  /\ Len(logs) <= 1
        /\ EventsOf("create_tensorboard_logger") # << >> =>
              /\ Len(logs) = 1
              /\ logs[1].cfi = 1
              /\ logs[1].lri = (IF driver = "hier" THEN 1 ELSE 0)
              /\ logs[1].a = 1
              /\ FirstIndexOf("log_dataset_distribution") < FirstIndexOf("run_fedavg")
              /\ FirstIndexOf("log_dataset_distribution")
                    = FirstIndexOf("create_tensorboard_logger") + 1

C6_Witness ==
    /\ driver = "hier"
    /\ pc = "done"
    /\ Len(EventsOf("run_fedavg")) = 4
    /\ Len(EventsOf("log_dataset_distribution")) = 1


-----------------------------------------------------------------------------
(* load_mnist_dataset (femnist.py 27-85): the non-IID shard partition      *)

TrainSize == num_shards * num_imgs

\* dataset_train.targets: one label per training image (a few labelings of each kind:
\* one class only, classes interleaved)
LabelInputs ==
    { [i \in 0..(TrainSize - 1) |-> (i * a + b) % 3] : a \in 0..2, b \in 0..1 }

\* the number of images argsort puts before image i. numpy's default argsort is not
\* stable: images of one label come out in an order the caller cannot rely on, here
\* either by rising or by falling index
Rank(lab, up, i) ==
    Cardinality({ j \in DOMAIN lab :
                    \/ lab[j] < lab[i]
                    \/ lab[j] = lab[i] /\ (IF up THEN j < i ELSE j > i) })

\* lines 46-48: idxs_labels[:, idxs_labels[1, :].argsort()][0, :]
SortedByLabel(lab, up) ==
    [k \in 0..(TrainSize - 1) |-> CHOOSE i \in DOMAIN lab : Rank(lab, up, i) = k]

\* mutant: a slice one image too long, running into the next shard
ShardSliceTooLong(rand) ==
    [k \in 1..(num_imgs + 1) |-> idxs[(rand * num_imgs + k - 1) % TrainSize]]

\* line 55: idxs[rand * num_imgs:(rand + 1) * num_imgs]
ShardSlice(rand) == [k \in 1..num_imgs |-> idxs[rand * num_imgs + k - 1]]

\* mutant: the drawn shards left in the pool
RemainingShardsKept(pool, rand_set) == pool

\* line 53: list(set(idx_shard) - rand_set)
RemainingShards(pool, rand_set) == pool \ rand_set

\* line 52: set(np.random.choice(idx_shard, 2, replace=False)), every possible draw
RandSets(pool) == { S \in SUBSET pool : Cardinality(S) = 2 }

\* the orders in which "for rand in rand_set" can visit a set
Orders(S) == { o \in [1..Cardinality(S) -> S] : \A a, b \in DOMAIN o : a # b => o[a] # o[b] }

InitMnist ==
    /\ mnist_pc = "assign"
    /\ mnist_num_clients \in 0..((num_shards \div 2) + 1)
    /\ labels \in LabelInputs
    /\ \E up \in BOOLEAN : idxs = SortedByLabel(labels, up)
    /\ idx_shard = 0..(num_shards - 1)
    /\ partitions = [i \in 0..(mnist_num_clients - 1) |-> << >>]
    /\ rand_sets = << >>
    /\ mnist_i = 0

\* lines 51-55: one iteration of "for i in range(num_clients)"
MnistAssign ==
    /\ mnist_pc = "assign"
    /\ mnist_i < mnist_num_clients
    /\ Cardinality(idx_shard) >= 2
    /\ \E rand_set \in RandSets(idx_shard) : \E o \in Orders(rand_set) :
          /\ idx_shard' = RemainingShards(idx_shard, rand_set)
          /\ partitions' = [partitions EXCEPT
                               ![mnist_i] = @ \o ShardSlice(o[1]) \o ShardSlice(o[2])]
          /\ rand_sets' = Append(rand_sets, rand_set)
    /\ mnist_i' = mnist_i + 1
    /\ UNCHANGED << mnist_pc, mnist_num_clients, labels, idxs,
                    driverVars, femnistVars, splitVars, omniVars >>

\* line 52 with fewer than two shards left: np.random.choice raises ValueError
MnistChoiceRaises ==
    /\ mnist_pc = "assign"
    /\ mnist_i < mnist_num_clients
    /\ Cardinality(idx_shard) < 2
    /\ mnist_pc' = "error"
    /\ UNCHANGED << mnist_num_clients, labels, idxs, idx_shard, partitions, rand_sets,
                    mnist_i, driverVars, femnistVars, splitVars, omniVars >>

\* lines 56-85: the loaders are built over the partitions and returned
MnistReturn ==
    /\ mnist_pc = "assign"
    /\ mnist_i >= mnist_num_clients
    /\ mnist_pc' = "done"
    /\ UNCHANGED << mnist_num_clients, labels, idxs, idx_shard, partitions, rand_sets,
                    mnist_i, driverVars, femnistVars, splitVars, omniVars >>

NextMnist == MnistAssign \/ MnistChoiceRaises \/ MnistReturn

InitMnistOnly == InitMnist /\ IdleDrivers /\ IdleFemnist /\ IdleSplit /\ IdleOmniglot

SpecMnist == InitMnistOnly /\ [][NextMnist]_vars

\* the elements of a sequence, as a set
Range(s) == { s[k] : k \in DOMAIN s }

\* C7: with at most num_shards / 2 clients (100 in the code) load_mnist_dataset never
\* fails; a served client holds two distinct shards, each num_imgs consecutive entries of
\* the label-sorted index array, so 2 * num_imgs distinct indices with non-decreasing
\* labels inside each shard; no shard and no index belongs to two clients; and after
\* serving i clients the pool holds num_shards - 2 * i shards.
C7_TwoDisjointShardsPerClient ==
    2 * mnist_num_clients <= num_shards =>
        /\ mnist_pc # "error"
        /\ Cardinality(idx_shard) = num_shards - 2 * mnist_i
        /\ Len(rand_sets) = mnist_i
        /\ \A i \in 0..(mnist_i - 1) :
              /\ Cardinality(rand_sets[i + 1]) = 2
              /\ rand_sets[i + 1] \subseteq 0..(num_shards - 1)
              /\ rand_sets[i + 1] \cap idx_shard = {}
              /\ Len(partitions[i]) = 2 * num_imgs
              /\ Cardinality(Range(partitions[i])) = 2 * num_imgs
              /\ \E a, b \in rand_sets[i + 1] :
                    /\ a # b
                    /\ \A k \in 1..num_imgs :
                          /\ partitions[i][k] = idxs[a * num_imgs + k - 1]
                          /\ partitions[i][num_imgs + k] = idxs[b * num_imgs + k - 1]
              /\ \A k \in 1..(2 * num_imgs - 1) :
                    k # num_imgs => labels[partitions[i][k]] <= labels[partitions[i][k + 1]]
              /\ \A j \in 0..(mnist_i - 1) :
                    i # j => /\ rand_sets[i + 1] \cap rand_sets[j + 1] = {}
                             /\ Range(partitions[i]) \cap Range(partitions[j]) = {}
        /\ \A i \in mnist_i..(mnist_num_clients - 1) : partitions[i] = << >>

\* every client that can be served has been: the pool is used up
C7_Witness ==
    /\ mnist_pc = "done"
    /\ mnist_num_clients = num_shards \div 2
    /\ mnist_i = mnist_num_clients
    /\ Cardinality(idx_shard) <= 1


-----------------------------------------------------------------------------
(* load_femnist_dataset (femnist.py 101-160)                               *)

\* emnist_train.client_ids
ClientIds == 1..MaxFemnistClients

\* -1 switches the threshold off; any other value, negative ones too, is a threshold
ThresholdInputs == (-2)..MaxSamples

\* RANDOM.choice(population, size=n, replace=False): every possible draw
Choices(population, n) == { S \in SUBSET population : Cardinality(S) = n }

\* mutant: a client with exactly sample_threshold samples counted too
ExceedsThresholdOrEqual(client_id) == sample_threshold <= train_sizes[client_id]

\* line 124: sample_threshold < len(h5data_train['label'])
ExceedsThreshold(client_id) == sample_threshold < train_sizes[client_id]

InitFemnist ==
    /\ femnist_pc = "select"
    /\ femnist_num_clients \in 0..(MaxFemnistClients + 1)
    /\ sample_threshold \in ThresholdInputs
    /\ train_sizes \in [ClientIds -> 0..MaxSamples]
    /\ clients_exceeding_threshold = << >>
    /\ selected_client_ids = {}
    /\ scanned = 0
    /\ femnist_err = "none"

\* line 113: the first draw, from all client ids
FemnistSelect ==
    /\ femnist_pc = "select"
    /\ femnist_num_clients <= Cardinality(ClientIds)
    /\ selected_client_ids' \in Choices(ClientIds, femnist_num_clients)
    /\ femnist_pc' = IF sample_threshold # -1 THEN "scan" ELSE "build"
    /\ UNCHANGED << femnist_num_clients, sample_threshold, train_sizes,
                    clients_exceeding_threshold, scanned, femnist_err,
                    driverVars, mnistVars, splitVars,
                    omniVars >>

\* line 113 asked for more clients than there are: choice raises ValueError
FemnistSelectRaises ==
    /\ femnist_pc = "select"
    /\ femnist_num_clients > Cardinality(ClientIds)
    /\ femnist_pc' = "error"
    /\ femnist_err' = "ValueError: larger sample than population"
    /\ UNCHANGED << femnist_num_clients, sample_threshold, train_sizes,
                    clients_exceeding_threshold, selected_client_ids, scanned,
                    driverVars, mnistVars, splitVars,
                    omniVars >>

\* lines 121-125: one iteration of "for client_id in emnist_train.client_ids"
FemnistScan ==
    /\ femnist_pc = "scan"
    /\ scanned < Cardinality(ClientIds)
    /\ clients_exceeding_threshold' =
          IF ExceedsThreshold(scanned + 1)
          THEN Append(clients_exceeding_threshold, scanned + 1)
          ELSE clients_exceeding_threshold
    /\ scanned' = scanned + 1
    /\ UNCHANGED << femnist_pc, femnist_num_clients, sample_threshold, train_sizes,
                    selected_client_ids, femnist_err, driverVars, mnistVars, splitVars,
                    omniVars >>

\* lines 126-128
FemnistThresholdRaises ==
    /\ femnist_pc = "scan"
    /\ scanned >= Cardinality(ClientIds)
    /\ Len(clients_exceeding_threshold) < femnist_num_clients
    /\ femnist_pc' = "error"
    /\ femnist_err' = "ValueError: too few clients above the threshold"
    /\ UNCHANGED << femnist_num_clients, sample_threshold, train_sizes,
                    clients_exceeding_threshold, selected_client_ids, scanned,
                    driverVars, mnistVars, splitVars,
                    omniVars >>

\* line 129: the second draw, from the clients above the threshold
FemnistReselect ==
    /\ femnist_pc = "scan"
    /\ scanned >= Cardinality(ClientIds)
    /\ Len(clients_exceeding_threshold) >= femnist_num_clients
    /\ selected_client_ids' \in
          Choices({ clients_exceeding_threshold[k] : k \in DOMAIN clients_exceeding_threshold },
                  femnist_num_clients)
    /\ femnist_pc' = "build"
    /\ UNCHANGED << femnist_num_clients, sample_threshold, train_sizes,
                    clients_exceeding_threshold, scanned, femnist_err,
                    driverVars, mnistVars, splitVars,
                    omniVars >>

\* lines 131-160: the loaders of the selected clients are built and returned
FemnistReturn ==
    /\ femnist_pc = "build"
    /\ femnist_pc' = "done"
    /\ UNCHANGED << femnist_num_clients, sample_threshold, train_sizes,
                    clients_exceeding_threshold, selected_client_ids, scanned,
                    femnist_err, driverVars, mnistVars, splitVars,
                    omniVars >>

NextFemnist ==
    \/ FemnistSelect
    \/ FemnistSelectRaises
    \/ FemnistScan
    \/ FemnistThresholdRaises
    \/ FemnistReselect
    \/ FemnistReturn

InitFemnistOnly == InitFemnist /\ IdleDrivers /\ IdleMnist /\ IdleSplit /\ IdleOmniglot

SpecFemnist == InitFemnistOnly /\ [][NextFemnist]_vars

-----------------------------------------------------------------------------
(* _split_train_test (omniglot.py 210-235)                                 *)

\* (input, label) pairs: item[1] is the input, item[2] the label (Python's item[1])
Items == {"a", "b"} \X {0, 1}

\* line 225: set(item[1] for item in train_set)
LabelsOf(s) == { s[k][2] : k \in DOMAIN s }

\* mutant: the last example of the label taken instead of the first
LastIndexWithLabel(s, label) ==
    IF \E i \in DOMAIN s : s[i][2] = label
    THEN CHOOSE i \in DOMAIN s :
            /\ s[i][2] = label
            /\ \A j \in DOMAIN s : j > i => s[j][2] # label
    ELSE 0

\* lines 228-229: the first i with train_set[i][1] == label (0: the scan finds none)
FirstIndexWithLabel(s, label) ==
    IF \E i \in DOMAIN s : s[i][2] = label
    THEN CHOOSE i \in DOMAIN s :
            /\ s[i][2] = label
            /\ \A j \in 1..(i - 1) : s[j][2] # label
    ELSE 0

\* line 230: del train_set[i]
RemoveAt(s, i) == [k \in 1..(Len(s) - 1) |-> IF k < i THEN s[k] ELSE s[k + 1]]

\* mutant: a test set exactly as large as asked for taken for too small
NotEnoughExamplesOrJustEnough == Len(test_set) <= Cardinality(LabelsOf(samples)) * test_shots

\* line 233: len(test_set) < len(labels) * test_shots
NotEnoughExamples == Len(test_set) < Cardinality(LabelsOf(samples)) * test_shots

\* the nested loops of lines 226-227 have run out
SplitLoopsDone == shot >= test_shots \/ Len(label_order) = 0

InitSplit ==
    /\ split_pc = "start"
    /\ samples \in SeqsUpTo(Items, MaxSplitSamples)
    /\ test_shots \in 0..MaxTestShots
    /\ train_set = << >>
    /\ test_set = << >>
    /\ label_order = << >>
    /\ shot = 0
    /\ label_pos = 0

\* lines 223-225; the set labels iterates in one order, the same in every pass
SplitStart ==
    /\ split_pc = "start"
    /\ train_set' = samples
    /\ test_set' = << >>
    /\ label_order' \in Orders(LabelsOf(samples))
    /\ shot' = 0
    /\ label_pos' = 0
    /\ split_pc' = "loop"
    /\ UNCHANGED << samples, test_shots, driverVars, mnistVars, femnistVars,
                    omniVars >>

\* lines 227-232: one iteration of "for label in labels"
SplitVisitLabel ==
    /\ split_pc = "loop"
    /\ ~SplitLoopsDone
    /\ LET label == label_order[label_pos + 1]
           i == FirstIndexWithLabel(train_set, label)
       IN  IF i # 0
           THEN /\ train_set' = RemoveAt(train_set, i)
                /\ test_set' = Append(test_set, train_set[i])
           ELSE UNCHANGED << train_set, test_set >>
    /\ IF label_pos + 1 = Len(label_order)
       THEN shot' = shot + 1 /\ label_pos' = 0
       ELSE shot' = shot /\ label_pos' = label_pos + 1
    /\ UNCHANGED << split_pc, samples, test_shots, label_order,
                    driverVars, mnistVars, femnistVars,
                    omniVars >>

\* lines 233-234
SplitRaise ==
    /\ split_pc = "loop"
    /\ SplitLoopsDone
    /\ NotEnoughExamples
    /\ split_pc' = "raised"
    /\ UNCHANGED << samples, test_shots, train_set, test_set, label_order, shot,
                    label_pos, driverVars, mnistVars, femnistVars,
                    omniVars >>

\* line 235
SplitReturn ==
    /\ split_pc = "loop"
    /\ SplitLoopsDone
    /\ ~NotEnoughExamples
    /\ split_pc' = "returned"
    /\ UNCHANGED << samples, test_shots, train_set, test_set, label_order, shot,
                    label_pos, driverVars, mnistVars, femnistVars,
                    omniVars >>

NextSplit == SplitStart \/ SplitVisitLabel \/ SplitRaise \/ SplitReturn

InitSplitOnly == InitSplit /\ IdleDrivers /\ IdleMnist /\ IdleFemnist /\ IdleOmniglot

SpecSplit == InitSplitOnly /\ [][NextSplit]_vars

\* the multiset of a sequence's elements
BagOf(s) == [x \in Range(s) |-> Cardinality({ k \in DOMAIN s : s[k] = x })]

\* the examples of one label, in their order in s
WithLabel(s, label) == SelectSeq(s, LAMBDA item : item[2] = label)

\* C9: when _split_train_test returns, test holds test_shots examples of every label of
\* samples, namely the label's first test_shots examples in input order; train holds the
\* label's other examples; and train and test together are the multiset samples.
C9_SplitMovesFirstShots ==
    split_pc = "returned" =>
        /\ \A label \in { samples[k][2] : k \in DOMAIN samples } :
              /\ Len(WithLabel(test_set, label)) = test_shots
              /\ WithLabel(test_set, label) = SubSeq(WithLabel(samples, label), 1, test_shots)
              /\ WithLabel(train_set, label) =
                    SubSeq(WithLabel(samples, label), test_shots + 1,
                           Len(WithLabel(samples, label)))
        /\ Len(test_set) = test_shots * Cardinality({ samples[k][2] : k \in DOMAIN samples })
        /\ Len(train_set) + Len(test_set) = Len(samples)
        /\ BagOf(train_set) (+) BagOf(test_set) = BagOf(samples)

\* two labels with two different examples each: the first of each moved to test
C9_Witness ==
    /\ split_pc = "returned"
    /\ test_shots = 1
    /\ Len(test_set) = 2
    /\ Len(train_set) = 2
    /\ \A k \in 1..2 : train_set[k] \notin Range(test_set)

\* C10: _split_train_test raises its IndexError exactly when some label of samples has
\* fewer than test_shots examples; with test_shots = 1 it never raises.
C10_RaisesIffLabelShort ==
    LET count(label) == Cardinality({ k \in DOMAIN samples : samples[k][2] = label })
        short == \E k \in DOMAIN samples : count(samples[k][2]) < test_shots
    IN  /\ split_pc \in {"raised", "returned"} => (split_pc = "raised" <=> short)
        /\ (split_pc = "loop" /\ SplitLoopsDone) => (NotEnoughExamples <=> short)
        /\ test_shots = 1 => split_pc # "raised"

\* one label has enough examples, another has not
C10_Witness ==
    /\ split_pc = "raised"
    /\ test_shots = 2
    /\ Len(test_set) = 3


-----------------------------------------------------------------------------
(* load_omniglot_datasets (src/mlmi/reptile/omniglot.py).                  *)
(* A Character is its directory and its rotation; an image drawn from a    *)
(* character is represented by its position in the draw.  A DataLoader is  *)
(* its arguments, its dataset by its length.                               *)

Min(a, b) == IF a <= b THEN a ELSE b

\* s[:n] and s[n:] for n >= 0
Take(s, n) == SubSeq(s, 1, Min(n, Len(s)))
Drop(s, n) == SubSeq(s, Min(n, Len(s)) + 1, Len(s))

\* lines 182-185: Character(dir_path, rotation)
Character(dir_path, rotation) == [dir_path |-> dir_path, rotation |-> rotation]

\* lines 140-146: one Character of rotation 0 per character directory, in sorted order
read_dataset(n) == [k \in 1..n |-> Character(k, 0)]

\* the images every character directory holds (20 in Omniglot): too few for the
\* largest num_shots_per_class + 1, or just enough
ImageCounts == { MaxShots, MaxShots + 1 }

\* the inner_batch_size arguments: full batch, a size DataLoader rejects, the default
BatchSizeInputs == { -1, 0, 5 }

\* lines 158-160: all_data[:num_train], all_data[num_train:]
split_dataset(all_data) == << Take(all_data, num_train), Drop(all_data, num_train) >>

\* line 173
Rotations == << 0, 90, 180, 270 >>

\* mutant: every copy keeps rotation 0
AugmentDatasetUnrotated(ds) ==
    [k \in 1..(Len(Rotations) * Len(ds)) |->
        Character(ds[((k - 1) \div Len(Rotations)) + 1].dir_path, 0)]

\* lines 172-174: for each character, in order, one Character per rotation
augment_dataset(ds) ==
    [k \in 1..(Len(Rotations) * Len(ds)) |->
        Character(ds[((k - 1) \div Len(Rotations)) + 1].dir_path,
                  Rotations[((k - 1) % Len(Rotations)) + 1])]

\* lines 61-73: the FederatedDatasetData arguments before the loop; the dict of
\* client i is position i + 1 of a list (the arguments that stay None are left out)
NewDatasetArgs(num_clients) ==
    [client_num |-> num_clients,
     train_data_num |-> 0,
     test_data_num |-> 0,
     data_local_num_dict |-> << >>,
     data_local_train_num_dict |-> << >>,
     data_local_test_num_dict |-> << >>,
     train_data_local_dict |-> << >>,
     test_data_local_dict |-> << >>]

\* lines 120-122: shuffled[:num_classes], as positions of dataset
Selections(ds, num_classes) ==
    { o \in [1..Min(num_classes, Len(ds)) -> DOMAIN ds] :
        \A a, b \in DOMAIN o : a # b => o[a] # o[b] }

\* lines 195-200: names[:num_images] of the shuffled image names
CharacterSample(character, num_images) ==
    [k \in 1..Min(num_images, images[character.dir_path]) |-> k]

\* lines 122-124: (sample, class_idx) for every sample of every class, from class p on
RECURSIVE MiniDatasetFrom(_, _, _, _)
MiniDatasetFrom(ds, sel, num_shots, p) ==
    IF p > Len(sel) THEN << >>
    ELSE LET drawn == CharacterSample(ds[sel[p]], num_shots)
         IN  [k \in DOMAIN drawn |-> << drawn[k], p - 1 >>]
             \o MiniDatasetFrom(ds, sel, num_shots, p + 1)

\* lines 113-124
sample_mini_dataset(ds, sel, num_shots) == MiniDatasetFrom(ds, sel, num_shots, 1)

\* mutant: no extra shot drawn for the test set
MiniShotsWithoutTestShot == num_shots_per_class

\* line 79: num_shots=num_shots_per_class + 1
MiniShots == num_shots_per_class + 1

\* lines 228-232 for one label: its first example moves from train to test
MoveLabel(st, label) ==
    LET i == FirstIndexWithLabel(st.train, label)
    IN  IF i = 0 THEN st
        ELSE [train |-> RemoveAt(st.train, i), test |-> Append(st.test, st.train[i])]

\* line 227: one pass over the labels, from the k-th of order on
RECURSIVE SplitPass(_, _, _)
SplitPass(st, order, k) ==
    IF k > Len(order) THEN st ELSE SplitPass(MoveLabel(st, order[k]), order, k + 1)

\* line 226: `shots` passes
RECURSIVE SplitShots(_, _, _)
SplitShots(st, order, shots) ==
    IF shots = 0 THEN st ELSE SplitShots(SplitPass(st, order, 1), order, shots - 1)

\* line 81: _split_train_test(client_data), test_shots left at its default 1 (line 210);
\* order is the order in which the set of labels iterates.  Every label has an example,
\* so the IndexError of line 234 cannot happen here
split_train_test(data, order) ==
    SplitShots([train |-> data, test |-> << >>], order, 1)

\* mutant: the full-batch case ignored
TrainBatchSizeUnchanged(td) == inner_batch_size

\* lines 82-84
TrainBatchSize(td) == IF inner_batch_size = -1 THEN Len(td) ELSE inner_batch_size

\* lines 82-83, 85
TestBatchSize(td) == IF inner_batch_size = -1 THEN Len(td) ELSE inner_batch_size

\* lines 88-92, 97-101: DataLoader(dataset, batch_size, shuffle=True)
DataLoader(data, batch_size) == [len |-> Len(data), batch_size |-> batch_size]

\* torch's DataLoader raises ValueError unless batch_size is positive
LoaderRejects(batch_size) == batch_size <= 0

\* the dataset of the _make_omniglot_dataset call in progress (lines 42, 47)
ActiveDataset ==
    IF omni_pc \in {"train_clients", "train_split"} THEN omniglot_train ELSE omniglot_test

\* the loop index i of line 75
Served == Len(federated_dataset_args.data_local_num_dict)

\* lines 81-85: the split and the batch sizes of one loop iteration
Iteration(order) ==
    LET sp == split_train_test(client_data, order)
    IN  [train |-> sp.train, test |-> sp.test,
         train_batch_size |-> TrainBatchSize(sp.train),
         test_batch_size |-> TestBatchSize(sp.test)]

\* lines 88-106: the entries of client i
WithClient(args, it) ==
    [args EXCEPT
        !.train_data_local_dict = Append(@, DataLoader(it.train, it.train_batch_size)),
        !.data_local_train_num_dict = Append(@, Len(it.train)),
        !.train_data_num = @ + Len(it.train),
        !.test_data_local_dict = Append(@, DataLoader(it.test, it.test_batch_size)),
        !.data_local_test_num_dict = Append(@, Len(it.test)),
        !.test_data_num = @ + Len(it.test),
        !.data_local_num_dict = Append(@, Len(it.train) + Len(it.test))]

omniInputs == << characters, images, num_clients_train, num_clients_test,
                 num_classes_per_client, num_shots_per_class, inner_batch_size >>

omniDatasets == << split_train, omniglot_train, omniglot_test >>

omniLocals == << train_data, test_data, train_batch_size, test_batch_size >>

InitOmniglot ==
    /\ omni_pc = "load"
    /\ \E n \in 0..MaxChars :
        /\ characters = read_dataset(n)
        /\ images \in { [k \in 1..n |-> c] : c \in ImageCounts }
    /\ num_clients_train \in 0..MaxOmniClients
    /\ num_clients_test \in 0..MaxOmniClients
    /\ num_classes_per_client \in 0..MaxClasses
    /\ num_shots_per_class \in 0..MaxShots
    /\ inner_batch_size \in BatchSizeInputs
    /\ split_train = << >>
    /\ omniglot_train = << >>
    /\ omniglot_test = << >>
    /\ federated_dataset_args = NoDataset
    /\ train_clients = NoDataset
    /\ test_clients = NoDataset
    /\ client_data = << >>
    /\ train_data = << >>
    /\ test_data = << >>
    /\ train_batch_size = 0
    /\ test_batch_size = 0
    /\ omni_err = "none"

\* lines 32-34 and the start of the first _make_omniglot_dataset call (41-45, 61-73);
\* random.shuffle leaves all_data in any order
OmniLoad ==
    /\ omni_pc = "load"
    /\ \E o \in Orders(DOMAIN characters) :
        LET all_data == [k \in DOMAIN characters |-> characters[o[k]]]
            parts == split_dataset(all_data)
        IN  /\ split_train' = parts[1]
            /\ omniglot_train' = augment_dataset(parts[1])
            /\ omniglot_test' = parts[2]
    /\ federated_dataset_args' = NewDatasetArgs(num_clients_train)
    /\ omni_pc' = "train_clients"
    /\ UNCHANGED << omniInputs, train_clients, test_clients, client_data, omniLocals,
                    omni_err, driverVars, mnistVars, femnistVars, splitVars >>

\* lines 75-80: the next client's mini dataset is drawn
OmniSample ==
    /\ omni_pc \in {"train_clients", "test_clients"}
    /\ Served < federated_dataset_args.client_num
    /\ \E sel \in Selections(ActiveDataset, num_classes_per_client) :
        client_data' = sample_mini_dataset(ActiveDataset, sel, MiniShots)
    /\ omni_pc' = IF omni_pc = "train_clients" THEN "train_split" ELSE "test_split"
    /\ UNCHANGED << omniInputs, omniDatasets, federated_dataset_args, train_clients,
                    test_clients, omniLocals, omni_err, driverVars, mnistVars, femnistVars,
                    splitVars >>

\* lines 81-106: the rest of the loop iteration
OmniClient ==
    /\ omni_pc \in {"train_split", "test_split"}
    /\ \E order \in Orders(LabelsOf(client_data)) :
        LET it == Iteration(order)
        IN  /\ ~LoaderRejects(it.train_batch_size)
            /\ ~LoaderRejects(it.test_batch_size)
            /\ train_data' = it.train
            /\ test_data' = it.test
            /\ train_batch_size' = it.train_batch_size
            /\ test_batch_size' = it.test_batch_size
            /\ federated_dataset_args' = WithClient(federated_dataset_args, it)
    /\ omni_pc' = IF omni_pc = "train_split" THEN "train_clients" ELSE "test_clients"
    /\ UNCHANGED << omniInputs, omniDatasets, train_clients, test_clients, client_data,
                    omni_err, driverVars, mnistVars, femnistVars, splitVars >>

\* lines 81-88, 97: a DataLoader refuses its batch size and the ValueError leaves
\* load_omniglot_datasets
OmniLoaderRaises ==
    /\ omni_pc \in {"train_split", "test_split"}
    /\ \E order \in Orders(LabelsOf(client_data)) :
        LET it == Iteration(order)
        IN  /\ LoaderRejects(it.train_batch_size) \/ LoaderRejects(it.test_batch_size)
            /\ train_data' = it.train
            /\ test_data' = it.test
            /\ train_batch_size' = it.train_batch_size
            /\ test_batch_size' = it.test_batch_size
    /\ omni_pc' = "error"
    /\ omni_err' = "ValueError"
    /\ UNCHANGED << omniInputs, omniDatasets, federated_dataset_args, train_clients,
                    test_clients, client_data, driverVars, mnistVars, femnistVars,
                    splitVars >>

\* line 108 of the first call, and the start of the second (46-50, 61-73)
OmniTrainClientsDone ==
    /\ omni_pc = "train_clients"
    /\ Served >= federated_dataset_args.client_num
    /\ train_clients' = federated_dataset_args
    /\ federated_dataset_args' = NewDatasetArgs(num_clients_test)
    /\ omni_pc' = "test_clients"
    /\ UNCHANGED << omniInputs, omniDatasets, test_clients, client_data, omniLocals,
                    omni_err, driverVars, mnistVars, femnistVars, splitVars >>

\* line 108 of the second call, and line 52
OmniTestClientsDone ==
    /\ omni_pc = "test_clients"
    /\ Served >= federated_dataset_args.client_num
    /\ test_clients' = federated_dataset_args
    /\ omni_pc' = "done"
    /\ UNCHANGED << omniInputs, omniDatasets, federated_dataset_args, train_clients,
                    client_data, omniLocals, omni_err, driverVars, mnistVars, femnistVars,
                    splitVars >>

NextOmniglot ==
    \/ OmniLoad
    \/ OmniSample
    \/ OmniClient
    \/ OmniLoaderRaises
    \/ OmniTrainClientsDone
    \/ OmniTestClientsDone

InitOmniglotOnly == InitOmniglot /\ IdleDrivers /\ IdleMnist /\ IdleFemnist /\ IdleSplit

SpecOmniglot == InitOmniglotOnly /\ [][NextOmniglot]_vars


-----------------------------------------------------------------------------
(* Claims about load_omniglot_datasets.                                    *)

RECURSIVE SumSeq(_)
SumSeq(s) == IF s = << >> THEN 0 ELSE s[1] + SumSeq(Tail(s))

\* the examples of class c in a list of (sample, class_idx)
CountOf(data, c) == Cardinality({ k \in DOMAIN data : data[k][2] = c })

\* the dataset has num_classes_per_client characters, each with
\* num_shots_per_class + 1 images
Enough(ds) ==
    /\ Len(ds) >= num_classes_per_client
    /\ \A k \in DOMAIN ds : images[ds[k].dir_path] >= num_shots_per_class + 1

InClientLoop == omni_pc \in {"train_clients", "train_split", "test_clients", "test_split"}

ClientsAsClaimed(args) ==
    \A i \in DOMAIN args.data_local_num_dict :
        /\ args.data_local_train_num_dict[i] = num_classes_per_client * num_shots_per_class
        /\ args.train_data_local_dict[i].len = num_classes_per_client * num_shots_per_class
        /\ args.data_local_test_num_dict[i] = num_classes_per_client
        /\ args.test_data_local_dict[i].len = num_classes_per_client

TotalsAreSums(args) ==
    /\ args.train_data_num = SumSeq(args.data_local_train_num_dict)
    /\ args.test_data_num = SumSeq(args.data_local_test_num_dict)

Returned(args, num_clients, ds) ==
    /\ Len(args.data_local_train_num_dict) = num_clients
    /\ Len(args.data_local_test_num_dict) = num_clients
    /\ TotalsAreSums(args)
    /\ Enough(ds) => ClientsAsClaimed(args)

\* C11: when the dataset given to _make_omniglot_dataset has at least
\* num_classes_per_client characters and each has at least num_shots_per_class + 1
\* images, every client gets num_classes_per_client * num_shots_per_class training
\* samples and num_classes_per_client test samples, one of each class; train_data_num
\* and test_data_num are the sums of the clients' counts, over all num_clients clients
\* once the call has returned.
C11_ClientSampleCounts ==
    /\ InClientLoop =>
        /\ TotalsAreSums(federated_dataset_args)
        /\ Enough(ActiveDataset) =>
            /\ ClientsAsClaimed(federated_dataset_args)
            /\ Served > 0 =>
                /\ Len(train_data) = num_classes_per_client * num_shots_per_class
                /\ Len(test_data) = num_classes_per_client
                /\ \A c \in 0..(num_classes_per_client - 1) :
                    /\ CountOf(test_data, c) = 1
                    /\ CountOf(train_data, c) = num_shots_per_class
    /\ train_clients # NoDataset => Returned(train_clients, num_clients_train, omniglot_train)
    /\ test_clients # NoDataset => Returned(test_clients, num_clients_test, omniglot_test)

\* two training clients with two classes of one shot each
C11_Witness ==
    /\ omni_pc = "done"
    /\ num_classes_per_client = 2
    /\ num_shots_per_class = 1
    /\ Enough(omniglot_train)
    /\ train_clients.data_local_train_num_dict = << 2, 2 >>
    /\ train_clients.data_local_test_num_dict = << 2, 2 >>
    /\ train_clients.train_data_num = 4
    /\ train_clients.test_data_num = 4
    /\ num_clients_test = 2

ExpectedBatchSize(n) == IF inner_batch_size = -1 THEN n ELSE inner_batch_size

LoadersAsClaimed(args) ==
    \A i \in DOMAIN args.data_local_num_dict :
        /\ args.train_data_local_dict[i].len = args.data_local_train_num_dict[i]
        /\ args.train_data_local_dict[i].batch_size =
                ExpectedBatchSize(args.data_local_train_num_dict[i])
        /\ args.test_data_local_dict[i].len = args.data_local_test_num_dict[i]
        /\ args.test_data_local_dict[i].batch_size =
                ExpectedBatchSize(args.data_local_test_num_dict[i])

\* a loop iteration has reached line 85
OmniIterated ==
    \/ omni_pc = "error"
    \/ InClientLoop /\ Served > 0
    \/ train_clients # NoDataset /\ num_clients_train > 0
    \/ test_clients # NoDataset /\ num_clients_test > 0

\* C12: with inner_batch_size = -1 the train loader's batch size is the number of the
\* client's training samples and the test loader's batch size the number of its test
\* samples; with any other inner_batch_size both loaders get inner_batch_size.
C12_BatchSizes ==
    /\ \A args \in {federated_dataset_args, train_clients, test_clients} \ {NoDataset} :
        LoadersAsClaimed(args)
    /\ OmniIterated =>
        /\ train_batch_size = ExpectedBatchSize(Len(train_data))
        /\ test_batch_size = ExpectedBatchSize(Len(test_data))

\* full batch: a training client with loaders of batch size 2, a test client with
\* loaders of batch size 1
C12_Witness ==
    /\ omni_pc = "done"
    /\ inner_batch_size = -1
    /\ num_clients_train > 0
    /\ train_clients.train_data_local_dict[1] = [len |-> 2, batch_size |-> 2]
    /\ train_clients.test_data_local_dict[1] = [len |-> 2, batch_size |-> 2]
    /\ num_clients_test > 0
    /\ test_clients.train_data_local_dict[1] = [len |-> 1, batch_size |-> 1]
    /\ test_clients.test_data_local_dict[1] = [len |-> 1, batch_size |-> 1]

====
